---- MODULE Spec2Model ----
(***************************************************************************)
(* A model of the EU clinical-trials scraper: the fetch/retry engine       *)
(* (app/utils/page_fetcher.py), the record merger (app/utils/data_utils.py)*)
(* and the scrape orchestrator (app/eu_scraper.py).                        *)
(***************************************************************************)
EXTENDS Integers, Sequences, FiniteSets, TLC

(***************************************************************************)
(* Bounds of the model.                                                    *)
(***************************************************************************)
MaxUrls == 2

MaxProtocols == 2
MaxCards == 2
PageSize == 1
MaxWidth == 2
MaxPathLen == 2

\* Program constants.
MAX_BACKOFF_TIME == 300
DEFAULT_MAX_ATTEMPTS == 7
HTTP_OK == 200

\* max_attempts is a parameter of _make_request; fetch_page always passes the
\* default.  The larger value makes a backoff above MAX_BACKOFF_TIME happen.
MaxAttemptsChoices == {DEFAULT_MAX_ATTEMPTS, 10}

\* The URLs of a batch are told apart by a number.
Url(i) == 100 + i
StatusCodes == {200, 204, 404}

\* What one session.get can produce: a response with a status, or a
\* transport failure (an exception out of session.get).
Responses ==
    [transport : {FALSE}, status : StatusCodes] \cup {[transport |-> TRUE, status |-> 0]}

NoResponse == [transport |-> FALSE, status |-> 0]

VARIABLES
    urls,         \* the argument of fetch_pages
    maxAttempts,  \* max_attempts of every _make_request of the batch
    fpc,          \* fpc[i]: where task i of the batch is
    attempt,      \* attempt[i]: the attempt argument of the running _make_request
    events,       \* events[i]: the GETs and sleeps task i has made, in order
    lastResp,     \* lastResp[i]: what the last session.get of task i produced
    result,       \* result[i]: what task i returned or raised
    bpc,          \* where _fetch_multiple is
    responses     \* the value fetch_pages returned

fetchVars == <<urls, maxAttempts, fpc, attempt, events, lastResp, result, bpc, responses>>

VARIABLES
    merge_input,   \* the argument of update_record
    row_data,     \* the row update_record fills
    mpc,          \* where update_record is
    mexc,         \* the exception update_record raised, "" if none
    msteps,       \* the extraction steps update_record has run, in order
    rowBefore     \* row_data as it was when the results step began

mergeVars == <<merge_input, row_data, mpc, mexc, msteps, rowBefore>>

VARIABLES
    mode,               \* "date" (scrape_by_date) or "page" (scrape_by_page)
    site,               \* the cards the register lists, PageSize to a search page
    rpc,                \* where the scrape is
    initial_search_page,  \* scrape_by_date: the first search page
    pages_and_results,  \* what get_num_pages_and_results made of it
    search_results,     \* what get_cards is given: a slot per search page
    cards_data,         \* the parsed cards
    ddb,                \* the DynamoDB table: trial_id -> the item last put
    s3,                 \* the S3 objects put: <<name prefix, trial_id>>
    successful_trials,  \* the counter of the per-trial loop
    card_idx,                \* the card the per-trial loop is at (from 1)
    protocols_urls,     \* get_trial_data: the protocol URLs of the card
    pidx,               \* get_protocols_data: the URL it is at (from 1)
    protocols,          \* get_protocols_data: the documents collected
    cur_trial,          \* trial_data of the loop body, None when there is none
    new_record,         \* new_record of the loop body
    runExc,             \* the exception that ended the scrape, "" if none
    abortedAt,          \* the value of rpc when that exception was raised
    skipped,            \* trial ids logged at lines 80 / 132, in order
    protocolFailed,     \* trial ids with a protocol fetch that failed
    fetch_log,          \* get_protocols_data: its fetch_page calls for the card, <<URL, outcome>>
    resultsFailed,      \* trial ids whose results fetch failed
    merged,             \* trial ids whose merged row was put, in order
    reported            \* line 88 / 140: <<successful_trials, len(cards_data)>>

runVars ==
    <<mode, site, rpc, initial_search_page, pages_and_results, search_results, cards_data, ddb, s3, successful_trials, card_idx,
      protocols_urls, pidx, protocols, cur_trial, new_record, runExc, abortedAt, skipped,
      protocolFailed, fetch_log, resultsFailed, merged, reported>>

VARIABLES
    tree,         \* the tree a helper of data_utils is called on
    tfn,          \* the helper called, "" before the call
    tpath,        \* safe_get: its keys argument
    tkey,         \* search_for_key: target_key; collect_keys_with_keyword: keyword
    tret,         \* what the call returned, or the exception it raised
    trow          \* extract_phase_data: row_data after the call

treeVars == <<tree, tfn, tpath, tkey, tret, trow>>

VARIABLES
    argv,          \* the command line: the four options as argparse leaves them
    args,          \* the namespace validate_args returns
    apc,           \* where main is
    exit_status,   \* the exit status of the process, -1 while it runs
    scrape_calls   \* the scrape modes scraper.scrape() has started, in order

argVars == <<argv, args, apc, exit_status, scrape_calls>>

vars == <<fetchVars, mergeVars, runVars, treeVars, argVars>>

(***************************************************************************)
(* page_fetcher.py                                                         *)
(***************************************************************************)
Get(k) == [ev |-> "get", n |-> k]
Sleep(s) == [ev |-> "sleep", n |-> s]

Pending == [kind |-> "none", url |-> 0, status |-> 0, attempts |-> 0, transport |-> FALSE]

\* The response object _make_request returns (line 84).
Document(u, r) ==
    [kind |-> "doc", url |-> u, status |-> r.status, attempts |-> 0, transport |-> FALSE]

\* The exception _make_request raises at line 94: the URL, max_attempts and
\* the last underlying error e.
FetchError(u, m, r) ==
    [kind |-> "error", url |-> u, status |-> r.status, attempts |-> m,
     transport |-> r.transport]

IsError(x) == x.kind = "error"

\* line 83: if response.status == 200
IsSuccess2xx(r) == ~r.transport /\ r.status >= 200 /\ r.status <= 299

IsSuccess(r) == ~r.transport /\ r.status = HTTP_OK

\* line 88: if attempt < max_attempts
CanRetryOffByOne(a, m) == a <= m

CanRetry(a, m) == a < m

\* line 91: asyncio.sleep(2 ** attempt)
Min(a, b) == IF a < b THEN a ELSE b

BackoffClamped(a) == Min(2 ^ a, MAX_BACKOFF_TIME)

Backoff(a) == 2 ^ a

\* asyncio.gather(*tasks, return_exceptions=True): one slot per task, in the
\* order of the tasks, an exception being the value of its slot.
GatherDropErrors(rs) == SelectSeq(rs, LAMBDA x : ~IsError(x))

Gather(rs) == rs

Tasks == 1 .. Len(urls)

InitFetch ==
    /\ urls \in {[i \in 1 .. n |-> Url(i)] : n \in 0 .. MaxUrls}
    /\ maxAttempts \in MaxAttemptsChoices
    /\ fpc = [i \in Tasks |-> "request"]
    /\ attempt = [i \in Tasks |-> 1]
    /\ events = [i \in Tasks |-> <<>>]
    /\ lastResp = [i \in Tasks |-> NoResponse]
    /\ result = [i \in Tasks |-> Pending]
    /\ bpc = "gathering"
    /\ responses = <<>>

IdleFetch ==
    /\ urls = <<>>
    /\ maxAttempts = DEFAULT_MAX_ATTEMPTS
    /\ fpc = <<>>
    /\ attempt = <<>>
    /\ events = <<>>
    /\ lastResp = <<>>
    /\ result = <<>>
    /\ bpc = "idle"
    /\ responses = <<>>

\* One pass through the try block of _make_request (lines 81-94) for task i:
\* the GET, and what follows from its outcome r.
MakeRequest(i, r) ==
    /\ bpc = "gathering"
    /\ fpc[i] = "request"
    /\ lastResp' = [lastResp EXCEPT ![i] = r]
    /\ IF IsSuccess(r)
       THEN /\ events' = [events EXCEPT ![i] = Append(@, Get(attempt[i]))]
            /\ result' = [result EXCEPT ![i] = Document(urls[i], r)]
            /\ fpc' = [fpc EXCEPT ![i] = "returned"]
       ELSE IF CanRetry(attempt[i], maxAttempts)
       THEN /\ events' = [events EXCEPT
                 ![i] = Append(Append(@, Get(attempt[i])), Sleep(Backoff(attempt[i])))]
            /\ result' = result
            /\ fpc' = [fpc EXCEPT ![i] = "sleeping"]
       ELSE /\ events' = [events EXCEPT ![i] = Append(@, Get(attempt[i]))]
            /\ result' = [result EXCEPT ![i] = FetchError(urls[i], maxAttempts, r)]
            /\ fpc' = [fpc EXCEPT ![i] = "raised"]
    /\ UNCHANGED <<urls, maxAttempts, attempt, bpc, responses>>
    /\ UNCHANGED <<mergeVars, runVars, treeVars, argVars>>

\* The sleep of line 91 is over: line 92 calls _make_request with attempt + 1.
WakeUp(i) ==
    /\ bpc = "gathering"
    /\ fpc[i] = "sleeping"
    /\ attempt' = [attempt EXCEPT ![i] = @ + 1]
    /\ fpc' = [fpc EXCEPT ![i] = "request"]
    /\ UNCHANGED <<urls, maxAttempts, events, lastResp, result, bpc, responses>>
    /\ UNCHANGED <<mergeVars, runVars, treeVars, argVars>>

\* _fetch_multiple, lines 107-109: every task is over, gather hands back the
\* list of their values.
FetchMultipleReturn ==
    /\ bpc = "gathering"
    /\ \A i \in Tasks : fpc[i] \in {"returned", "raised"}
    /\ responses' = Gather(result)
    /\ bpc' = "done"
    /\ UNCHANGED <<urls, maxAttempts, fpc, attempt, events, lastResp, result>>
    /\ UNCHANGED <<mergeVars, runVars, treeVars, argVars>>

(***************************************************************************)
(* data_utils.py: the values the parsers hand over are trees of mappings   *)
(* (ordered, as a Python dict is), lists, strings and None.                *)
(***************************************************************************)
None == [t |-> "none", v |-> <<>>]
Str(s) == [t |-> "str", v |-> s]
List(q) == [t |-> "list", v |-> q]
Dict(q) == [t |-> "dict", v |-> q]
Entry(k, n) == [k |-> k, val |-> n]

\* A path segment or subscript: a string key or an integer index.
Key(s) == [t |-> "str", v |-> s]
Idx(n) == [t |-> "int", v |-> n]

IsDict(n) == n.t = "dict"
IsList(n) == n.t = "list"
IsNone(n) == n.t = "none"

\* key in d, d[key] for a dict d
HasKey(d, k) == \E i \in 1 .. Len(d.v) : d.v[i].k = k
Value(d, k) == d.v[CHOOSE i \in 1 .. Len(d.v) : d.v[i].k = k].val

\* d[k] = n for a dict d: a new key goes last, an old one keeps its place.
DictSet(d, k, n) ==
    IF HasKey(d, k)
    THEN Dict([i \in 1 .. Len(d.v) |-> IF d.v[i].k = k THEN Entry(k, n) ELSE d.v[i]])
    ELSE Dict(Append(d.v, Entry(k, n)))

\* Python's truth value of a tree.
Truthy(n) ==
    CASE n.t = "none" -> FALSE
      [] n.t = "str" -> n.v # ""
      [] OTHER -> Len(n.v) > 0

\* sub in s, for strings
Contains(s, sub) ==
    \E i \in 1 .. (Len(s) - Len(sub) + 1) : SubSeq(s, i, i + Len(sub) - 1) = sub

\* re.IGNORECASE: the lower-case letter of an upper-case one.
LowerOf ==
    [A |-> "a", B |-> "b", C |-> "c", D |-> "d", E |-> "e", F |-> "f", G |-> "g",
     H |-> "h", I |-> "i", J |-> "j", K |-> "k", L |-> "l", M |-> "m", N |-> "n",
     O |-> "o", P |-> "p", Q |-> "q", R |-> "r", S |-> "s", T |-> "t", U |-> "u",
     V |-> "v", W |-> "w", X |-> "x", Y |-> "y", Z |-> "z"]

LowerChar(c) == IF c \in DOMAIN LowerOf THEN LowerOf[c] ELSE c

\* sub in s, letters compared without their case
ContainsIgnoreCase(s, sub) ==
    \E i \in 1 .. (Len(s) - Len(sub) + 1) :
        \A j \in 1 .. Len(sub) :
            LowerChar(SubSeq(s, i + j - 1, i + j - 1)) = LowerChar(SubSeq(sub, j, j))

\* What an expression gives: a value, or the exception it raised.
Ok(x) == [exc |-> "", val |-> x]
Raise(e) == [exc |-> e, val |-> None]

\* node[idx]
Subscript(n, idx) ==
    CASE n.t = "dict" ->
            IF idx.t = "str" /\ HasKey(n, idx.v) THEN Ok(Value(n, idx.v)) ELSE Raise("KeyError")
      [] n.t = "list" ->
            IF idx.t # "int" THEN Raise("TypeError")
            ELSE IF idx.v >= 0 /\ idx.v < Len(n.v) THEN Ok(n.v[idx.v + 1])
            ELSE Raise("IndexError")
      [] n.t = "str" ->
            IF idx.t # "int" THEN Raise("TypeError")
            ELSE IF idx.v >= 0 /\ idx.v < Len(n.v) THEN Ok(Str(SubSeq(n.v, idx.v + 1, idx.v + 1)))
            ELSE Raise("IndexError")
      [] OTHER -> Raise("TypeError")

\* k in node, for a string k
In(k, n) ==
    CASE n.t = "dict" -> Ok(HasKey(n, k))
      [] n.t = "list" -> Ok(\E i \in 1 .. Len(n.v) : n.v[i] = Str(k))
      [] n.t = "str" -> Ok(Contains(n.v, k))
      [] OTHER -> [exc |-> "TypeError", val |-> FALSE]

\* x[0] if isinstance(x, list) else x
FirstOrSelf(x) == IF IsList(x) THEN Subscript(x, Idx(0)) ELSE Ok(x)

\* safe_get, lines 195-200
RECURSIVE safe_get(_, _)
safe_get(d, keys) ==
    IF keys = <<>> THEN d
    ELSE LET key == Head(keys)
         IN  IF IsDict(d) /\ key.t = "str" /\ HasKey(d, key.v)
             THEN safe_get(Value(d, key.v), Tail(keys))
             ELSE None

\* search_for_key, lines 66-79
RECURSIVE search_for_key(_, _), SearchEntries(_, _), SearchItems(_, _)
SearchEntries(es, target_key) ==
    IF es = <<>> THEN None
    ELSE IF Head(es).k = target_key THEN Head(es).val
    ELSE LET res == search_for_key(Head(es).val, target_key)
         IN  IF ~IsNone(res) THEN res ELSE SearchEntries(Tail(es), target_key)

SearchItems(items, target_key) ==
    IF items = <<>> THEN None
    ELSE LET res == search_for_key(Head(items), target_key)
         IN  IF ~IsNone(res) THEN res ELSE SearchItems(Tail(items), target_key)

search_for_key(json_data, target_key) ==
    CASE IsDict(json_data) -> SearchEntries(json_data.v, target_key)
      [] IsList(json_data) -> SearchItems(json_data.v, target_key)
      [] OTHER -> None

\* re.search(keyword, key, re.IGNORECASE), for a keyword without regex
\* metacharacters
KeywordMatchesCaseSensitive(keyword, key) == Contains(key, keyword)

KeywordMatches(keyword, key) == ContainsIgnoreCase(key, keyword)

\* search_keys, lines 94-102: the entries appended to keys_with_keyword
RECURSIVE search_keys(_, _), SearchKeysEntries(_, _), SearchKeysItems(_, _)
SearchKeysEntries(es, keyword) ==
    IF es = <<>> THEN <<>>
    ELSE (IF KeywordMatches(keyword, Head(es).k) THEN <<Head(es)>> ELSE <<>>)
         \o search_keys(Head(es).val, keyword)
         \o SearchKeysEntries(Tail(es), keyword)

SearchKeysItems(items, keyword) ==
    IF items = <<>> THEN <<>>
    ELSE search_keys(Head(items), keyword) \o SearchKeysItems(Tail(items), keyword)

search_keys(data, keyword) ==
    CASE IsDict(data) -> SearchKeysEntries(data.v, keyword)
      [] IsList(data) -> SearchKeysItems(data.v, keyword)
      [] OTHER -> <<>>

\* collect_keys_with_keyword, lines 92-109
collect_keys_with_keyword(json_data, keyword) ==
    LET found == search_keys(json_data, keyword)
    IN  IF found # <<>>
        THEN List([i \in 1 .. Len(found) |-> Dict(<<found[i]>>)])
        ELSE None


\* constants.py, lines 20-23
COLUMNS ==
    {"trial_id", "title", "url", "acronym", "status", "summary", "results", "conditions",
     "interventions", "primary_outcome", "secondary_outcome", "other_outcome", "sponsor",
     "collaborators", "sex", "age", "phases", "enrollment", "funder_type", "study_type",
     "study_design", "other_ids", "start_date", "primary_completion_date",
     "completion_date", "first_posted", "results_first_posted", "last_update_posted",
     "locations", "study_documents", "protocols"}

\* row_data = {column: None for column in COLUMNS}
EmptyRowNoColumns == [c \in {} |-> None]

EmptyRow == [c \in COLUMNS |-> None]

\* row_data[k] = n
RowSet(row, k, n) == [c \in (DOMAIN row) \cup {k} |-> IF c = k THEN n ELSE row[c]]

\* What a step that fills row_data in place leaves: the row, and the
\* exception if it raised.
Done(row) == [exc |-> "", row |-> row]
Failed(e, row) == [exc |-> e, row |-> row]

\* The next statement F runs on the row unless the one before raised.
AndThen(st, F(_)) == IF st.exc # "" THEN st ELSE F(st.row)

\* The assignments row_data[a] = card_data[b] of lines 28-37 and 245-254.
CardFields ==
    << <<"trial_id", "trial_id">>, <<"title", "full_title">>,
       <<"url", "trial_results_link">>, <<"age", "population_age">>,
       <<"sex", "gender">>, <<"start_date", "start_date">>,
       <<"sponsor", "sponsor_name">>, <<"conditions", "medical_condition">>,
       <<"disease", "disease">>, <<"protocols", "trial_protocols">> >>

RECURSIVE CopyCardFields(_, _, _)
CopyCardFields(card_data, row, fields) ==
    IF fields = <<>> THEN Done(row)
    ELSE LET got == Subscript(card_data, Key(Head(fields)[2]))
         IN  IF got.exc # "" THEN Failed(got.exc, row)
             ELSE CopyCardFields(card_data, RowSet(row, Head(fields)[1], got.val), Tail(fields))

\* get_trial_data_from_card, lines 27-38
get_trial_data_from_card(card_data) == CopyCardFields(card_data, EmptyRow, CardFields)

\* extract_card_data, lines 244-255
extract_card_data(trial_data, row) ==
    LET card == Subscript(trial_data, Key("card"))
    IN  IF card.exc # "" THEN Failed(card.exc, row)
        ELSE
        LET copied == CopyCardFields(card.val, row, CardFields)
            protos == Subscript(card.val, Key("trial_protocols"))
            first == IF protos.exc = "" THEN Subscript(protos.val, Idx(0)) ELSE protos
            status == IF first.exc = "" THEN Subscript(first.val, Key("protocol_status"))
                      ELSE first
        IN  IF copied.exc # "" THEN copied
            ELSE IF status.exc # "" THEN Failed(status.exc, copied.row)
            ELSE Done(RowSet(copied.row, "status", status.val))

\* if label in section: row_data[column] = first-or-self of section[label],
\* for each <<label, column>> of pairs in turn (lines 217-225, 229-234).
RECURSIVE CopyIfPresent(_, _, _)
CopyIfPresent(section, row, pairs) ==
    IF pairs = <<>> THEN Done(row)
    ELSE LET label == Head(pairs)[1]
             has == In(label, section)
             got == Subscript(section, Key(label))
             val == IF got.exc = "" THEN FirstOrSelf(got.val) ELSE got
         IN  IF has.exc # "" THEN Failed(has.exc, row)
             ELSE IF ~has.val THEN CopyIfPresent(section, row, Tail(pairs))
             ELSE IF val.exc # "" THEN Failed(val.exc, row)
             ELSE CopyIfPresent(section, RowSet(row, Head(pairs)[2], val.val), Tail(pairs))

SummaryFields ==
    << <<"Trial Status", "status">>, <<"Clinical Trial Type", "study_type">>,
       <<"Date on which this record was first entered in the EudraCT database",
         "first_posted">> >>

SponsorFields == << <<"Country", "locations">>, <<"Status of the sponsor", "funder_type">> >>

\* lines 210-213
ProtocolTitle(trial_data, row) ==
    LET protocol_info ==
            safe_get(trial_data, <<Key("protocols"), Idx(0), Key("A. Protocol Information")>>)
        \* protocol_info.get("Full title of the trial")
        title == IF HasKey(protocol_info, "Full title of the trial")
                 THEN Value(protocol_info, "Full title of the trial")
                 ELSE None
        val == FirstOrSelf(title)
    IN  IF ~Truthy(protocol_info) THEN Done(row)
        ELSE IF ~IsDict(protocol_info) THEN Failed("AttributeError", row)
        ELSE IF val.exc # "" THEN Failed(val.exc, row)
        ELSE Done(RowSet(row, "title", val.val))

\* lines 215-225
ProtocolSummary(trial_data, row) ==
    LET summary == safe_get(trial_data, <<Key("protocols"), Idx(0), Key("summary")>>)
    IN  IF ~Truthy(summary) THEN Done(row) ELSE CopyIfPresent(summary, row, SummaryFields)

\* lines 227-234
ProtocolSponsor(trial_data, row) ==
    LET sponsor_info ==
            safe_get(trial_data, <<Key("protocols"), Idx(0), Key("B. Sponsor Information")>>)
    IN  IF ~Truthy(sponsor_info) THEN Done(row)
        ELSE CopyIfPresent(sponsor_info, row, SponsorFields)

\* extract_protocol_data, lines 210-234
extract_protocol_data(trial_data, row) ==
    AndThen(AndThen(ProtocolTitle(trial_data, row),
                    LAMBDA r : ProtocolSummary(trial_data, r)),
            LAMBDA r : ProtocolSponsor(trial_data, r))

\* The loop of lines 175-178 over the collected {key: value} items:
\* unique_dict as the ordered list of its entries.
RECURSIVE UniquePhases(_, _)
UniquePhases(found, unique_dict) ==
    IF found = <<>> THEN Ok(unique_dict)
    ELSE LET e == Head(found)
             first == Subscript(e.val, Idx(0))
         IN  IF HasKey(unique_dict, e.k) THEN UniquePhases(Tail(found), unique_dict)
             ELSE IF first.exc # "" THEN first
             ELSE UniquePhases(Tail(found), DictSet(unique_dict, e.k, first.val))

\* extract_phase_data, lines 172-180
extract_phase_data(trial_data, row) ==
    LET phases == collect_keys_with_keyword(trial_data, "Phase")
        unique == UniquePhases(search_keys(trial_data, "Phase"), Dict(<<>>))
    IN  IF ~Truthy(phases) THEN Done(row)
        ELSE IF unique.exc # "" THEN Failed(unique.exc, row)
        ELSE Done(RowSet(row, "phases",
                         List([i \in 1 .. Len(unique.val.v) |-> Dict(<<unique.val.v[i]>>)])))

\* [x for x in results if "current" in x], line 142, for a results document
\* that is a mapping: the keys that contain "current", in iteration order.
CurrentKeys(results) ==
    LET keys == [i \in 1 .. Len(results.v) |-> results.v[i].k]
    IN  SelectSeq(keys, LAMBDA k : Contains(k, "current"))

\* lines 147-152: one of the two results_information copies
ResultsInformation(current, row, label, column) ==
    LET has == In("results_information", current)
        info == Subscript(current, Key("results_information"))
        inner == IF info.exc = "" THEN In(label, info.val) ELSE [exc |-> info.exc, val |-> FALSE]
    IN  IF has.exc # "" THEN Failed(has.exc, row)
        ELSE IF ~has.val THEN Done(row)
        ELSE IF inner.exc # "" THEN Failed(inner.exc, row)
        ELSE IF ~inner.val THEN Done(row)
        ELSE CopyIfPresent(info.val, row, << <<label, column>> >>)

\* lines 154-160: search_for_key, and the copy when the value is truthy
SearchedField(current, row, label, column) ==
    LET found == search_for_key(current, label)
    IN  IF ~Truthy(found) THEN Done(row)
        ELSE Done(RowSet(row, column, FirstOrSelf(found).val))

\* lines 144-146
CompletionDateAsStart(current, row) ==
    LET summary == Subscript(current, Key("summary"))
    IN  IF summary.exc # "" THEN Failed(summary.exc, row)
        ELSE CopyIfPresent(summary.val, row, << <<"global_end_date", "start_date">> >>)

CompletionDate(current, row) ==
    LET summary == Subscript(current, Key("summary"))
    IN  IF summary.exc # "" THEN Failed(summary.exc, row)
        ELSE CopyIfPresent(summary.val, row, << <<"global_end_date", "completion_date">> >>)

\* lines 143-162, once the current version is chosen
ExtractCurrent(trial_data, current, row) ==
    AndThen(AndThen(AndThen(AndThen(AndThen(
        CompletionDate(current, row),
        LAMBDA r : ResultsInformation(current, r, "This version publication date",
                                      "last_update_posted")),
        LAMBDA r : ResultsInformation(current, r, "First version publication date",
                                      "results_first_posted")),
        LAMBDA r : SearchedField(current, r, "Primary completion date",
                                 "primary_completion_date")),
        LAMBDA r : SearchedField(current, r, "Worldwide total number of subjects",
                                 "enrollment")),
        LAMBDA r : extract_phase_data(trial_data, r))

\* extract_results_data, lines 142-162
extract_results_data(trial_data, row) ==
    LET results == Value(trial_data, "results")
    IN  IF ~IsDict(results) THEN Failed("TypeError", row)
        ELSE IF CurrentKeys(results) = <<>> THEN Failed("IndexError", row)
        ELSE ExtractCurrent(trial_data, Value(results, CurrentKeys(results)[1]), row)

\* lines 124-132: what follows extract_card_data
AfterCard(trial_data, row) ==
    IF Len(Value(trial_data, "protocols").v) = 0 THEN Done(row)
    ELSE AndThen(extract_protocol_data(trial_data, row),
                 LAMBDA r : IF ~HasKey(trial_data, "results") THEN Done(r)
                            ELSE extract_results_data(trial_data, r))

\* update_record, lines 121-132
update_record(trial_data) ==
    AndThen(extract_card_data(trial_data, EmptyRow), LAMBDA r : AfterCard(trial_data, r))

(***************************************************************************)
(* The helpers of data_utils.py on their own: safe_get, search_for_key,    *)
(* collect_keys_with_keyword and extract_phase_data, each called once on a *)
(* tree of mappings, lists, strings and None.                              *)
(***************************************************************************)
TreeKeys == {"k", "Phase", "phase II"}
TreeLeaves == {None, Str("II"), List(<<>>)}

\* A leaf, or a mapping or a list that holds one leaf.
InnerTrees ==
    TreeLeaves
        \cup {Dict(<<Entry(k, n)>>) : k \in TreeKeys, n \in TreeLeaves}
        \cup {List(<<n>>) : n \in TreeLeaves}

\* The keys of a mapping are distinct.
KeySeqs(n) == {ks \in [1 .. n -> TreeKeys] : \A i, j \in 1 .. n : ks[i] = ks[j] => i = j}

\* An inner tree, or a mapping or a list of up to MaxWidth inner trees.
TreeChoices ==
    InnerTrees
        \cup UNION {{Dict([i \in 1 .. n |-> Entry(ks[i], ns[i])]) :
                        ks \in KeySeqs(n), ns \in [1 .. n -> InnerTrees]} : n \in 1 .. MaxWidth}
        \cup UNION {{List(ns) : ns \in [1 .. n -> InnerTrees]} : n \in 1 .. MaxWidth}

PathSegments == {Key("k"), Idx(0), Idx(1)}
PathChoices == UNION {[1 .. n -> PathSegments] : n \in 0 .. MaxPathLen}

InitTree ==
    /\ tree \in TreeChoices
    /\ tfn = ""
    /\ tpath = <<>>
    /\ tkey = ""
    /\ tret = Ok(None)
    /\ trow = EmptyRow

IdleTree ==
    /\ tree = None
    /\ tfn = "idle"
    /\ tpath = <<>>
    /\ tkey = ""
    /\ tret = Ok(None)
    /\ trow = EmptyRow

\* safe_get(tree, keys), lines 193-200; keys is a list, so the assert of
\* line 193 passes.
SafeGetCall(keys) ==
    /\ tfn = ""
    /\ tfn' = "safe_get"
    /\ tpath' = keys
    /\ tret' = Ok(safe_get(tree, keys))
    /\ UNCHANGED <<tree, tkey, trow>>
    /\ UNCHANGED <<fetchVars, mergeVars, runVars, argVars>>

\* search_for_key(tree, target_key), lines 66-79
SearchForKeyCall(target_key) ==
    /\ tfn = ""
    /\ tfn' = "search_for_key"
    /\ tkey' = target_key
    /\ tret' = Ok(search_for_key(tree, target_key))
    /\ UNCHANGED <<tree, tpath, trow>>
    /\ UNCHANGED <<fetchVars, mergeVars, runVars, argVars>>

\* collect_keys_with_keyword(tree, keyword), lines 92-109
CollectKeysCall(keyword) ==
    /\ tfn = ""
    /\ tfn' = "collect_keys_with_keyword"
    /\ tkey' = keyword
    /\ tret' = Ok(collect_keys_with_keyword(tree, keyword))
    /\ UNCHANGED <<tree, tpath, trow>>
    /\ UNCHANGED <<fetchVars, mergeVars, runVars, argVars>>

\* extract_phase_data(tree, row_data), lines 172-180, on a fresh row
ExtractPhaseCall ==
    /\ tfn = ""
    /\ tfn' = "extract_phase_data"
    /\ LET st == extract_phase_data(tree, EmptyRow)
       IN  /\ trow' = st.row
           /\ tret' = [exc |-> st.exc, val |-> None]
    /\ UNCHANGED <<tree, tpath, tkey>>
    /\ UNCHANGED <<fetchVars, mergeVars, runVars, argVars>>

(***************************************************************************)
(* The documents the parsers hand over (CardParser, ProtocolParser and     *)
(* ResultParser): the shapes of the data model, in a few instances.        *)
(***************************************************************************)
One(s) == List(<<Str(s)>>)

ProtocolEntry(url, status) ==
    Dict(<<Entry("protocol_url", Str(url)), Entry("protocol_status", Str(status))>>)

\* A card's protocol entry, with a URL or with an empty one.
CardProtocolChoices == {ProtocolEntry("p", "ongoing"), ProtocolEntry("", "ongoing")}

Card(id, link, protos) ==
    Dict(<<Entry("trial_id", Str(id)),
           Entry("full_title", Str("card title")),
           Entry("sponsor_name", Str("sponsor")),
           Entry("start_date", Str("2019-01-01")),
           Entry("medical_condition", Str("condition")),
           Entry("disease", Str("disease")),
           Entry("population_age", Str("Adults")),
           Entry("gender", Str("Male, Female")),
           Entry("trial_protocols", List(protos)),
           Entry("trial_results_link", link)>>)

\* trial_results_link: a URL, or None when the card has no results.
ResultsLinkChoices == {Str("r"), None}

ProtocolFull ==
    Dict(<<Entry("url", Str("p")),
           Entry("summary",
                 Dict(<<Entry("Trial Status", One("completed")),
                        Entry("Clinical Trial Type", One("EEA CTA")),
                        Entry("Date on which this record was first entered in the EudraCT database",
                              One("2018-12-01"))>>)),
           Entry("A. Protocol Information",
                 Dict(<<Entry("Full title of the trial", One("protocol title"))>>)),
           Entry("B. Sponsor Information",
                 Dict(<<Entry("Country", One("Germany")),
                        Entry("Status of the sponsor", One("Commercial"))>>)),
           Entry("E. General Information",
                 Dict(<<Entry("Therapeutic exploratory (Phase II)", One("Yes"))>>))>>)

ProtocolScalar ==
    Dict(<<Entry("url", Str("p")),
           Entry("summary", Dict(<<Entry("Trial Status", Str("completed"))>>)),
           Entry("B. Sponsor Information", Dict(<<Entry("Country", Str("France"))>>))>>)

ProtocolBare == Dict(<<Entry("url", Str("p"))>>)

ProtocolDocChoices == {ProtocolFull, ProtocolScalar, ProtocolBare}

Version(end_date, published) ==
    Dict(<<Entry("summary", Dict(<<Entry("global_end_date", One(end_date))>>)),
           Entry("results_information",
                 Dict(<<Entry("This version publication date", One(published)),
                        Entry("First version publication date", One("2021-01-01"))>>)),
           Entry("trial_information",
                 Dict(<<Entry("Primary completion date", One("2020-06-01")),
                        Entry("Worldwide total number of subjects", One("100"))>>))>>)

\* The versions of the testable property: "v1_current" and "v2_archived".
ResultsCurrentFirst ==
    Dict(<<Entry("v1_current", Version("2020-07-01", "2021-02-01")),
           Entry("v2_archived", Version("2020-08-01", "2021-01-01"))>>)

\* No key contains "current".
ResultsNoCurrent ==
    Dict(<<Entry("v1_Current", Version("2020-07-01", "2021-02-01")),
           Entry("v2_archived", Version("2020-08-01", "2021-01-01"))>>)

\* Two keys contain "current"; the first is not the first key.
ResultsTwoCurrent ==
    Dict(<<Entry("v0_archived", Version("2020-05-01", "2021-01-01")),
           Entry("v2_current", Version("2020-09-01", "2021-03-01")),
           Entry("v1_current", Version("2020-07-01", "2021-02-01"))>>)

ResultsDocChoices == {ResultsCurrentFirst, ResultsNoCurrent, ResultsTwoCurrent}

\* get_trial_data, lines 153-161: the aggregate, with "results" only when the
\* card has a results link.
TrialData(card, docs, hasResults, results) ==
    Dict(<<Entry("card", card),
           Entry("trial_id", Value(card, "trial_id")),
           Entry("protocols", List(docs))>>
         \o (IF hasResults THEN <<Entry("results", results)>> ELSE <<>>))

\* Every protocol URL of the card, the empty ones too.
ProtocolUrlsUnfiltered(card) ==
    LET ps == Value(card, "trial_protocols").v
    IN  [i \in 1 .. Len(ps) |-> Value(ps[i], "protocol_url")]

\* line 156: the protocol URLs of a card that are not empty
ProtocolUrls(card) ==
    LET ps == Value(card, "trial_protocols").v
        urlsOf == [i \in 1 .. Len(ps) |-> Value(ps[i], "protocol_url")]
    IN  SelectSeq(urlsOf, Truthy)

SeqsUpTo(S, n) == UNION {[1 .. k -> S] : k \in 0 .. n}

CardChoices ==
    {Card("t", link, ps) : link \in ResultsLinkChoices,
                           ps \in SeqsUpTo(CardProtocolChoices, MaxProtocols)}

\* The aggregates get_trial_data can return for a card: a document for each
\* protocol URL whose fetch did not fail, and the results document.
TrialDatasOf(card) ==
    {TrialData(card, docs, Truthy(Value(card, "trial_results_link")), res) :
        docs \in SeqsUpTo(ProtocolDocChoices, Len(ProtocolUrls(card))),
        res \in IF Truthy(Value(card, "trial_results_link"))
                THEN ResultsDocChoices ELSE {None}}

TrialDataChoices == UNION {TrialDatasOf(card) : card \in CardChoices}

(***************************************************************************)
(* update_record, a step at a time.                                        *)
(***************************************************************************)
InitMerge ==
    /\ merge_input \in TrialDataChoices
    /\ row_data = EmptyRow
    /\ mpc = "card"
    /\ mexc = ""
    /\ msteps = <<>>
    /\ rowBefore = EmptyRow

IdleMerge ==
    /\ merge_input = None
    /\ row_data = EmptyRow
    /\ mpc = "idle"
    /\ mexc = ""
    /\ msteps = <<>>
    /\ rowBefore = EmptyRow

\* lines 121-125
MergeCard ==
    /\ mpc = "card"
    /\ LET st == extract_card_data(merge_input, row_data)
       IN  /\ row_data' = st.row
           /\ mexc' = st.exc
           /\ mpc' = IF st.exc # "" THEN "raised"
                     ELSE IF Len(Value(merge_input, "protocols").v) = 0 THEN "returned"
                     ELSE "protocol"
    /\ msteps' = Append(msteps, "card")
    /\ UNCHANGED <<merge_input, rowBefore>>
    /\ UNCHANGED <<fetchVars, runVars, treeVars, argVars>>

\* lines 127-130
MergeProtocol ==
    /\ mpc = "protocol"
    /\ LET st == extract_protocol_data(merge_input, row_data)
       IN  /\ row_data' = st.row
           /\ mexc' = st.exc
           /\ mpc' = IF st.exc # "" THEN "raised"
                     ELSE IF ~HasKey(merge_input, "results") THEN "returned"
                     ELSE "results"
    /\ msteps' = Append(msteps, "protocol")
    /\ UNCHANGED <<merge_input, rowBefore>>
    /\ UNCHANGED <<fetchVars, runVars, treeVars, argVars>>

\* lines 131-132
MergeResults ==
    /\ mpc = "results"
    /\ LET st == extract_results_data(merge_input, row_data)
       IN  /\ row_data' = st.row
           /\ mexc' = st.exc
           /\ mpc' = IF st.exc # "" THEN "raised" ELSE "returned"
    /\ msteps' = Append(msteps, "results")
    /\ rowBefore' = row_data
    /\ UNCHANGED merge_input
    /\ UNCHANGED <<fetchVars, runVars, treeVars, argVars>>


(***************************************************************************)
(* eu_scraper.py: scrape_by_date and scrape_by_page.  A fetch_page of the  *)
(* scraper either returns the document or raises once its retries are     *)
(* exhausted; a write to DynamoDB or S3 succeeds or raises.                *)
(***************************************************************************)
Outcomes == {"ok", "error"}

\* The cards of the scrape: few shapes, the trial id set by the position.
\* "two": a results link and three protocol entries, the second without a
\* URL; "noresults": one protocol entry and no results link; "empty":
\* neither protocols nor results.
RunCard(n, shape) ==
    Card(CASE n = 1 -> "t1" [] n = 2 -> "t2" [] n = 3 -> "t3" [] OTHER -> "t4",
         IF shape = "two" THEN Str("r") ELSE None,
         CASE shape = "empty" -> <<>>
           [] shape = "two" -> <<ProtocolEntry("p", "ongoing"), ProtocolEntry("", "ongoing"),
                                 ProtocolEntry("q", "ongoing")>>
           [] OTHER -> <<ProtocolEntry("p", "ongoing")>>)

RunCardShapes == {"two", "noresults", "empty"}

\* What ProtocolParser makes of a protocol page: the sections, without the
\* "url" get_protocols_data puts first.
RunProtocolDocs == {Dict(Tail(ProtocolFull.v))}
RunResultsDocs == {ResultsCurrentFirst, ResultsNoCurrent}

TrialId(card) == Value(card, "trial_id").v

NumPages == (Len(site) + PageSize - 1) \div PageSize

\* The cards search page p lists.
PageCards(p) ==
    SubSeq(site, (p - 1) * PageSize + 1,
           IF p * PageSize < Len(site) THEN p * PageSize ELSE Len(site))

PageDoc(p) == [kind |-> "doc", page |-> p]
PageError(p) == [kind |-> "error", page |-> p]

\* The digits of n, a comma before the last three (the register writes
\* "1,234 result(s) found").
FormatThousands(n) ==
    LET digits == ToString(n)
    IN  IF Len(digits) > 3
        THEN SubSeq(digits, 1, Len(digits) - 3) \o ","
                 \o SubSeq(digits, Len(digits) - 2, Len(digits))
        ELSE digits

\* The first search page: whether it has div#tabs-1, div.outcome inside it,
\* the sentence "N result(s) found ... page P of Total" in that, and the
\* numbers the sentence gives.
FirstPage(tabs, outcome, sentence, results, pages) ==
    [tabs |-> tabs, outcome |-> outcome, sentence |-> sentence,
     results |-> results, pages |-> pages]

NoPage == FirstPage(FALSE, FALSE, FALSE, 0, 0)

\* data_section.text around the two numbers of the sentence.
OutcomeText(page) ==
    [count |-> FormatThousands(page.results), total |-> FormatThousands(page.pages)]

ResultCounts == {Len(site), 1234}

\* What the first search page can look like to get_num_pages_and_results.
InitialPageChoices ==
    {FirstPage(tabs, outcome, sentence, results, NumPages) :
        tabs \in BOOLEAN, outcome \in BOOLEAN, sentence \in BOOLEAN, results \in ResultCounts}

IsDigit(c) == \E d \in 1 .. 10 : SubSeq("0123456789", d, d) = c

DigitValue(c) == (CHOOSE d \in 1 .. 10 : SubSeq("0123456789", d, d) = c) - 1

\* .replace(",", ""), line 105
KeepCommas(text) == text

RECURSIVE StripCommas(_)
StripCommas(text) ==
    IF Len(text) = 0 THEN text
    ELSE (IF SubSeq(text, 1, 1) = "," THEN "" ELSE SubSeq(text, 1, 1))
             \o StripCommas(SubSeq(text, 2, Len(text)))

\* (\d+) just before " result(s) found": the digits the text ends with.
RECURSIVE TrailingDigits(_)
TrailingDigits(text) ==
    IF Len(text) = 0 \/ ~IsDigit(SubSeq(text, Len(text), Len(text))) THEN ""
    ELSE TrailingDigits(SubSeq(text, 1, Len(text) - 1)) \o SubSeq(text, Len(text), Len(text))

\* (\d+) just after "of ": the digits the text begins with.
RECURSIVE LeadingDigits(_)
LeadingDigits(text) ==
    IF Len(text) = 0 \/ ~IsDigit(SubSeq(text, 1, 1)) THEN ""
    ELSE SubSeq(text, 1, 1) \o LeadingDigits(SubSeq(text, 2, Len(text)))

\* int(s) for a string of digits
RECURSIVE ParseInt(_)
ParseInt(digits) ==
    IF Len(digits) = 0 THEN 0
    ELSE 10 * ParseInt(SubSeq(digits, 1, Len(digits) - 1))
             + DigitValue(SubSeq(digits, Len(digits), Len(digits)))

NotResolved == [exc |-> "", found |-> FALSE, pages |-> 0, results |-> 0]

\* get_num_pages_and_results, lines 100-113: the tuple, None, or the
\* exception of line 113.
get_num_pages_and_results(page) ==
    IF ~page.tabs THEN [exc |-> "Exception", found |-> FALSE, pages |-> 0, results |-> 0]
    ELSE IF ~page.outcome THEN NotResolved
    ELSE LET results == TrailingDigits(StripCommas(OutcomeText(page).count))
             pages == LeadingDigits(StripCommas(OutcomeText(page).total))
         IN  IF ~page.sentence \/ results = "" \/ pages = "" THEN NotResolved
             ELSE [exc |-> "", found |-> TRUE, pages |-> ParseInt(pages),
                   results |-> ParseInt(results)]

\* push_list_to_dynamodb, lines 298-301: put_item for each item in turn.
PushOnlyFirst(table, items) ==
    IF items = <<>> THEN table
    ELSE LET item == Head(items)
             id == item["trial_id"].v
         IN  [k \in (DOMAIN table) \cup {id} |-> IF k = id THEN item ELSE table[k]]

RECURSIVE push_list_to_dynamodb(_, _)
push_list_to_dynamodb(table, items) ==
    IF items = <<>> THEN table
    ELSE LET item == Head(items)
             id == item["trial_id"].v
         IN  push_list_to_dynamodb(
                 [k \in (DOMAIN table) \cup {id} |-> IF k = id THEN item ELSE table[k]],
                 Tail(items))

\* upload_jsons_to_s3, lines 415-419
upload_jsons_to_s3(bucket, ids, name_prefix) ==
    bucket \cup {<<name_prefix, ids[i]>> : i \in 1 .. Len(ids)}

Orders(n) == {f \in [1 .. n -> 1 .. n] : \A i, j \in 1 .. n : f[i] = f[j] => i = j}

InitRun ==
    /\ mode \in {"date", "page"}
    /\ site \in UNION {{[i \in 1 .. n |-> RunCard(i, sh[i])] : sh \in [1 .. n -> RunCardShapes]} :
                         n \in 0 .. MaxCards}
    /\ rpc = "scrape"
    /\ initial_search_page = NoPage
    /\ pages_and_results = NotResolved
    /\ search_results = <<>>
    /\ cards_data = <<>>
    /\ ddb = <<>>
    /\ s3 = {}
    /\ successful_trials = 0
    /\ card_idx = 0
    /\ protocols_urls = <<>>
    /\ pidx = 0
    /\ protocols = <<>>
    /\ cur_trial = None
    /\ new_record = EmptyRow
    /\ runExc = ""
    /\ abortedAt = ""
    /\ skipped = <<>>
    /\ protocolFailed = {}
    /\ fetch_log = <<>>
    /\ resultsFailed = {}
    /\ merged = <<>>
    /\ reported = <<>>

IdleRun ==
    /\ mode = "idle"
    /\ site = <<>>
    /\ rpc = "idle"
    /\ initial_search_page = NoPage
    /\ pages_and_results = NotResolved
    /\ search_results = <<>>
    /\ cards_data = <<>>
    /\ ddb = <<>>
    /\ s3 = {}
    /\ successful_trials = 0
    /\ card_idx = 0
    /\ protocols_urls = <<>>
    /\ pidx = 0
    /\ protocols = <<>>
    /\ cur_trial = None
    /\ new_record = EmptyRow
    /\ runExc = ""
    /\ abortedAt = ""
    /\ skipped = <<>>
    /\ protocolFailed = {}
    /\ fetch_log = <<>>
    /\ resultsFailed = {}
    /\ merged = <<>>
    /\ reported = <<>>

\* An exception nothing catches ends the scrape.
Abort(e) ==
    /\ rpc' = "aborted"
    /\ runExc' = e
    /\ abortedAt' = rpc

loopVars ==
    <<successful_trials, card_idx, protocols_urls, pidx, protocols, cur_trial, new_record,
      skipped, protocolFailed, fetch_log, resultsFailed, merged, reported>>

\* scrape_by_date, lines 61-66: the first search page is fetched and the
\* number of pages read off it; unpacking None at line 65 is a TypeError.
ResolvePages(out, page) ==
    /\ rpc = "scrape"
    /\ mode = "date"
    /\ IF out = "error"
       THEN Abort("FetchError") /\ UNCHANGED <<initial_search_page, pages_and_results>>
       ELSE LET got == get_num_pages_and_results(page)
            IN  /\ initial_search_page' = page
                /\ pages_and_results' = got
                /\ IF got.exc # "" THEN Abort(got.exc)
                   ELSE IF ~got.found THEN Abort("TypeError")
                   ELSE rpc' = "fetch_pages" /\ UNCHANGED <<runExc, abortedAt>>
    /\ UNCHANGED <<mode, site, search_results, cards_data, ddb, s3>>
    /\ UNCHANGED loopVars
    /\ UNCHANGED <<fetchVars, mergeVars, treeVars, argVars>>

\* scrape: the page range is given, there is nothing to resolve.
StartByPage ==
    /\ rpc = "scrape"
    /\ mode = "page"
    /\ rpc' = "fetch_pages"
    /\ UNCHANGED <<mode, site, initial_search_page, pages_and_results, search_results, cards_data, ddb, s3, runExc, abortedAt>>
    /\ UNCHANGED loopVars
    /\ UNCHANGED <<fetchVars, mergeVars, treeVars, argVars>>

\* The pages of search_urls: 1 to pages (line 66), or the page range given.
SearchPages == IF mode = "date" THEN pages_and_results.pages ELSE NumPages

\* fetch_pages over the search URLs: one slot per page.  scrape_by_date
\* (line 67) keeps the list as it is, scrape_search_pages (line 219) drops
\* the exceptions.
FetchSearchPages(outs) ==
    /\ rpc = "fetch_pages"
    /\ DOMAIN outs = 1 .. SearchPages
    /\ LET got == [p \in 1 .. SearchPages |->
                      IF outs[p] = "ok" THEN PageDoc(p) ELSE PageError(p)]
       IN  search_results' =
               IF mode = "date" THEN got ELSE SelectSeq(got, LAMBDA x : x.kind # "error")
    /\ rpc' = "get_cards"
    /\ UNCHANGED <<mode, site, initial_search_page, pages_and_results, cards_data, ddb, s3, runExc, abortedAt>>
    /\ UNCHANGED loopVars
    /\ UNCHANGED <<fetchVars, mergeVars, treeVars, argVars>>

RECURSIVE CardsOfPages(_)
CardsOfPages(pages) ==
    IF pages = <<>> THEN <<>> ELSE PageCards(Head(pages).page) \o CardsOfPages(Tail(pages))

\* get_cards and parse_cards, lines 232-240 and 265-268: page.text() of an
\* exception raises; the parsed cards come in the order the workers finish.
GetAndParseCards(perm) ==
    /\ rpc = "get_cards"
    /\ IF \E i \in 1 .. Len(search_results) : search_results[i].kind = "error"
       THEN /\ Abort("AttributeError")
            /\ UNCHANGED cards_data
       ELSE LET cards == CardsOfPages(search_results)
            IN  /\ perm \in Orders(Len(cards))
                /\ cards_data' = [i \in 1 .. Len(cards) |-> cards[perm[i]]]
                /\ rpc' = "push_card_rows"
                /\ UNCHANGED <<runExc, abortedAt>>
    /\ UNCHANGED <<mode, site, initial_search_page, pages_and_results, search_results, ddb, s3>>
    /\ UNCHANGED loopVars
    /\ UNCHANGED <<fetchVars, mergeVars, treeVars, argVars>>

\* lines 70-72 / 122-124: a row per card, put before the per-trial loop.
PushCardRows(out) ==
    /\ rpc = "push_card_rows"
    /\ LET card_rows == [i \in 1 .. Len(cards_data) |->
                            get_trial_data_from_card(cards_data[i]).row]
       IN  IF out = "error" /\ cards_data # <<>>
           THEN Abort("PersistError") /\ UNCHANGED ddb
           ELSE /\ ddb' = push_list_to_dynamodb(ddb, card_rows)
                /\ rpc' = "upload_cards"
                /\ UNCHANGED <<runExc, abortedAt>>
    /\ UNCHANGED <<mode, site, initial_search_page, pages_and_results, search_results, cards_data, s3>>
    /\ UNCHANGED loopVars
    /\ UNCHANGED <<fetchVars, mergeVars, treeVars, argVars>>

\* lines 74-76 / 126-128
UploadCards(out) ==
    /\ rpc = "upload_cards"
    /\ IF out = "error" /\ cards_data # <<>>
       THEN Abort("PersistError") /\ UNCHANGED <<s3, card_idx>>
       ELSE /\ s3' = upload_jsons_to_s3(
                        s3, [i \in 1 .. Len(cards_data) |-> TrialId(cards_data[i])],
                        "cards_data")
            /\ rpc' = "loop"
            /\ card_idx' = 1
            /\ UNCHANGED <<runExc, abortedAt>>
    /\ UNCHANGED <<mode, site, initial_search_page, pages_and_results, search_results, cards_data, ddb, successful_trials,
                   protocols_urls, pidx, protocols, cur_trial, new_record, skipped,
                   protocolFailed, fetch_log, resultsFailed, merged, reported>>
    /\ UNCHANGED <<fetchVars, mergeVars, treeVars, argVars>>

\* The head of the per-trial loop (lines 77 / 129), the first lines of
\* get_trial_data (153-156) for the next card, and line 88 / 140 after the
\* last one.
NextCard ==
    /\ rpc = "loop"
    /\ IF card_idx > Len(cards_data)
       THEN /\ reported' = <<successful_trials, Len(cards_data)>>
            /\ rpc' = "done"
            /\ UNCHANGED <<protocols_urls, pidx, protocols, fetch_log>>
       ELSE /\ protocols_urls' = ProtocolUrls(cards_data[card_idx])
            /\ pidx' = 1
            /\ protocols' = <<>>
            /\ fetch_log' = <<>>
            /\ rpc' = "get_trial_data"
            /\ UNCHANGED reported
    /\ UNCHANGED <<mode, site, initial_search_page, pages_and_results, search_results, cards_data, ddb, s3, successful_trials, card_idx,
                   cur_trial, new_record, runExc, abortedAt, skipped, protocolFailed,
                   resultsFailed, merged>>
    /\ UNCHANGED <<fetchVars, mergeVars, treeVars, argVars>>

\* d.update(other) for dicts: the entries of other set in their order.
RECURSIVE DictUpdate(_, _)
DictUpdate(d, other) ==
    IF other.v = <<>> THEN d
    ELSE DictUpdate(DictSet(d, Head(other.v).k, Head(other.v).val), Dict(Tail(other.v)))

\* lines 182-185: protocol_data is {"url": protocol_url} updated with what
\* the parser made of the page.
ProtocolData(protocol_url, parsed) ==
    DictUpdate(Dict(<<Entry("url", protocol_url)>>), parsed)

\* get_protocols_data, lines 177-188: one protocol URL; out = "error" is an
\* exception of fetch_page, of response.text() or of the parser: it is
\* logged and the protocol left out, and the loop goes on.
FetchProtocol(out, parsed) ==
    /\ rpc = "get_trial_data"
    /\ pidx <= Len(protocols_urls)
    /\ IF out = "ok"
       THEN /\ protocols' = Append(protocols, ProtocolData(protocols_urls[pidx], parsed))
            /\ UNCHANGED protocolFailed
       ELSE /\ protocolFailed' = protocolFailed \cup {TrialId(cards_data[card_idx])}
            /\ UNCHANGED protocols
    /\ fetch_log' = Append(fetch_log, <<protocols_urls[pidx], out>>)
    /\ pidx' = pidx + 1
    /\ UNCHANGED <<mode, site, initial_search_page, pages_and_results, rpc, search_results, cards_data, ddb, s3, successful_trials,
                   card_idx, protocols_urls, cur_trial, new_record, runExc, abortedAt, skipped,
                   resultsFailed, merged, reported>>
    /\ UNCHANGED <<fetchVars, mergeVars, treeVars, argVars>>

\* The results fetched while protocol URLs are still to be fetched.
GetResultsEarly(out, doc) ==
    /\ rpc = "get_trial_data"
    /\ LET card == cards_data[card_idx]
           hasLink == Truthy(Value(card, "trial_results_link"))
       IN  IF hasLink /\ out = "error"
           THEN /\ cur_trial' = None
                /\ resultsFailed' = resultsFailed \cup {TrialId(card)}
                /\ skipped' = Append(skipped, TrialId(card))
                /\ card_idx' = card_idx + 1
                /\ rpc' = "loop"
           ELSE /\ cur_trial' = TrialData(card, protocols, hasLink, doc)
                /\ rpc' = "merge"
                /\ UNCHANGED <<resultsFailed, skipped, card_idx>>
    /\ UNCHANGED <<mode, site, initial_search_page, pages_and_results, search_results, cards_data, ddb, s3, successful_trials,
                   protocols_urls, pidx, protocols, new_record, runExc, abortedAt,
                   protocolFailed, fetch_log, merged, reported>>
    /\ UNCHANGED <<fetchVars, mergeVars, treeVars, argVars>>

\* get_trial_data, lines 157-164, after the protocols: the results are
\* fetched when the card has a results link.  A failure makes get_trial_data
\* return None, and the loop logs the trial and goes on (lines 79-81).
GetResults(out, doc) ==
    /\ rpc = "get_trial_data"
    /\ pidx > Len(protocols_urls)
    /\ LET card == cards_data[card_idx]
           hasLink == Truthy(Value(card, "trial_results_link"))
       IN  IF hasLink /\ out = "error"
           THEN /\ cur_trial' = None
                /\ resultsFailed' = resultsFailed \cup {TrialId(card)}
                /\ skipped' = Append(skipped, TrialId(card))
                /\ card_idx' = card_idx + 1
                /\ rpc' = "loop"
           ELSE /\ cur_trial' = TrialData(card, protocols, hasLink, doc)
                /\ rpc' = "merge"
                /\ UNCHANGED <<resultsFailed, skipped, card_idx>>
    /\ UNCHANGED <<mode, site, initial_search_page, pages_and_results, search_results, cards_data, ddb, s3, successful_trials,
                   protocols_urls, pidx, protocols, new_record, runExc, abortedAt,
                   protocolFailed, fetch_log, merged, reported>>
    /\ UNCHANGED <<fetchVars, mergeVars, treeVars, argVars>>

\* line 82 / 134: new_record = update_record(trial_data), outside any try.
Merge ==
    /\ rpc = "merge"
    /\ LET st == update_record(cur_trial)
       IN  IF st.exc # ""
           THEN Abort(st.exc) /\ UNCHANGED new_record
           ELSE /\ new_record' = st.row
                /\ rpc' = "push_record"
                /\ UNCHANGED <<runExc, abortedAt>>
    /\ UNCHANGED <<mode, site, initial_search_page, pages_and_results, search_results, cards_data, ddb, s3, successful_trials, card_idx,
                   protocols_urls, pidx, protocols, cur_trial, skipped, protocolFailed, fetch_log,
                   resultsFailed, merged, reported>>
    /\ UNCHANGED <<fetchVars, mergeVars, treeVars, argVars>>

\* line 84 / 136
PushRecord(out) ==
    /\ rpc = "push_record"
    /\ IF out = "error"
       THEN Abort("PersistError") /\ UNCHANGED <<ddb, merged>>
       ELSE /\ ddb' = push_list_to_dynamodb(ddb, <<new_record>>)
            /\ merged' = Append(merged, new_record["trial_id"].v)
            /\ rpc' = "upload_trial"
            /\ UNCHANGED <<runExc, abortedAt>>
    /\ UNCHANGED <<mode, site, initial_search_page, pages_and_results, search_results, cards_data, s3, successful_trials, card_idx,
                   protocols_urls, pidx, protocols, cur_trial, new_record, skipped,
                   protocolFailed, fetch_log, resultsFailed, reported>>
    /\ UNCHANGED <<fetchVars, mergeVars, treeVars, argVars>>

\* lines 85-87 / 137-139
UploadTrial(out) ==
    /\ rpc = "upload_trial"
    /\ IF out = "error"
       THEN Abort("PersistError") /\ UNCHANGED <<s3, successful_trials, card_idx>>
       ELSE /\ s3' = upload_jsons_to_s3(s3, <<Value(cur_trial, "trial_id").v>>, "trial_data")
            /\ successful_trials' = successful_trials + 1
            /\ card_idx' = card_idx + 1
            /\ rpc' = "loop"
            /\ UNCHANGED <<runExc, abortedAt>>
    /\ UNCHANGED <<mode, site, initial_search_page, pages_and_results, search_results, cards_data, ddb, protocols_urls, pidx,
                   protocols, cur_trial, new_record, skipped, protocolFailed, fetch_log, resultsFailed,
                   merged, reported>>
    /\ UNCHANGED <<fetchVars, mergeVars, treeVars, argVars>>


(***************************************************************************)
(* main.py and args_parser.py: the command line, its validation, and the   *)
(* choice of the scrape mode.                                              *)
(***************************************************************************)
IntArg(n) == [t |-> "int", v |-> n]
Date(y, mo, d) == [t |-> "date", v |-> <<y, mo, d>>]

\* Python's truth value of an option: None, "" and 0 are false.
ArgTruthy(a) ==
    CASE a.t = "none" -> FALSE
      [] a.t = "str" -> a.v # ""
      [] a.t = "int" -> a.v # 0
      [] OTHER -> TRUE

\* --start-date / --end-date are strings (type=str), --start-page /
\* --end-page integers (type=int); an option not given is None.
DateArgChoices ==
    {None, Str(""), Str("2021-01-01"), Str("2021-01-31"), Str("2021-02-30"),
     Str("2021-1-5"), Str("01/31/2021")}

PageArgChoices == {None, IntArg(-1), IntArg(0), IntArg(1), IntArg(2)}

Namespace(start_date, end_date, start_page, end_page) ==
    [start_date |-> start_date, end_date |-> end_date,
     start_page |-> start_page, end_page |-> end_page]

NoArgs == Namespace(None, None, None, None)

RECURSIVE SplitDash(_)
SplitDash(text) ==
    IF \A i \in 1 .. Len(text) : SubSeq(text, i, i) # "-" THEN <<text>>
    ELSE LET i == CHOOSE i \in 1 .. Len(text) :
                      /\ SubSeq(text, i, i) = "-"
                      /\ \A j \in 1 .. (i - 1) : SubSeq(text, j, j) # "-"
         IN  <<SubSeq(text, 1, i - 1)>> \o SplitDash(SubSeq(text, i + 1, Len(text)))

AllDigits(text) == Len(text) > 0 /\ \A i \in 1 .. Len(text) : IsDigit(SubSeq(text, i, i))

DaysInMonth(y, mo) ==
    CASE mo \in {4, 6, 9, 11} -> 30
      [] mo = 2 -> IF (y % 4 = 0 /\ y % 100 # 0) \/ y % 400 = 0 THEN 29 ELSE 28
      [] OTHER -> 31

\* datetime.strptime(text, '%Y-%m-%d').date(): four digits of year, one or
\* two of month and of day, a date of the calendar; ValueError otherwise.
strptime(text) ==
    LET f == SplitDash(text)
    IN  IF /\ Len(f) = 3
           /\ \A i \in 1 .. 3 : AllDigits(f[i])
           /\ Len(f[1]) = 4 /\ Len(f[2]) <= 2 /\ Len(f[3]) <= 2
           /\ ParseInt(f[1]) >= 1
           /\ ParseInt(f[2]) \in 1 .. 12
           /\ ParseInt(f[3]) \in 1 .. DaysInMonth(ParseInt(f[1]), ParseInt(f[2]))
        THEN Ok(Date(ParseInt(f[1]), ParseInt(f[2]), ParseInt(f[3])))
        ELSE Raise("ValueError")

\* start_date > end_date, for dates
DateAfter(a, b) ==
    \/ a.v[1] > b.v[1]
    \/ a.v[1] = b.v[1] /\ a.v[2] > b.v[2]
    \/ a.v[1] = b.v[1] /\ a.v[2] = b.v[2] /\ a.v[3] > b.v[3]

\* validate_dates, lines 23-30
validate_dates(start_date, end_date) ==
    LET s == strptime(start_date.v)
        e == strptime(end_date.v)
    IN  IF s.exc # "" \/ e.exc # "" \/ DateAfter(s.val, e.val)
        THEN [exc |-> "ArgumentTypeError", start |-> None, end |-> None]
        ELSE [exc |-> "", start |-> s.val, end |-> e.val]

\* validate_args, lines 48-62: the namespace, sys.exit(1), or the exception
\* of validate_dates.
validate_args(a) ==
    LET noDate == IsNone(a.start_date) /\ IsNone(a.end_date)
        noPage == IsNone(a.start_page) /\ IsNone(a.end_page)
        dates == validate_dates(a.start_date, a.end_date)
    IN  IF noDate /\ noPage THEN [exit |-> 1, exc |-> "", args |-> a]
        ELSE IF ~noDate /\ ~noPage THEN [exit |-> 1, exc |-> "", args |-> a]
        ELSE IF IsNone(a.start_date) # IsNone(a.end_date)
        THEN [exit |-> 1, exc |-> "", args |-> a]
        ELSE IF IsNone(a.start_page) # IsNone(a.end_page)
        THEN [exit |-> 1, exc |-> "", args |-> a]
        ELSE IF ArgTruthy(a.start_date) /\ ArgTruthy(a.end_date)
        THEN IF dates.exc # "" THEN [exit |-> 0, exc |-> dates.exc, args |-> a]
             ELSE [exit |-> 0, exc |-> "",
                   args |-> [a EXCEPT !.start_date = dates.start, !.end_date = dates.end]]
        ELSE [exit |-> 0, exc |-> "", args |-> a]

\* main, lines 17-28, and scrape, lines 50-55: the mode that is run, "" if
\* none.
ScrapeMode(a) ==
    IF ArgTruthy(a.start_date) /\ ArgTruthy(a.end_date) THEN "date"
    ELSE IF ArgTruthy(a.start_page) /\ ArgTruthy(a.end_page) THEN "page"
    ELSE ""

InitArgs ==
    /\ argv \in {Namespace(sd, ed, sp, ep) :
                    sd \in DateArgChoices, ed \in DateArgChoices,
                    sp \in PageArgChoices, ep \in PageArgChoices}
    /\ args = NoArgs
    /\ apc = "parse_arguments"
    /\ exit_status = -1
    /\ scrape_calls = <<>>

IdleArgs ==
    /\ argv = NoArgs
    /\ args = NoArgs
    /\ apc = "idle"
    /\ exit_status = -1
    /\ scrape_calls = <<>>

\* main, line 15: parse_arguments, which ends in validate_args.  sys.exit(1)
\* and an exception nothing catches both end the process with status 1.
ParseArguments ==
    /\ apc = "parse_arguments"
    /\ LET got == validate_args(argv)
       IN  IF got.exit # 0 \/ got.exc # ""
           THEN /\ apc' = "exited"
                /\ exit_status' = 1
                /\ UNCHANGED args
           ELSE /\ apc' = "main"
                /\ args' = got.args
                /\ UNCHANGED exit_status
    /\ UNCHANGED <<argv, scrape_calls>>
    /\ UNCHANGED <<fetchVars, mergeVars, runVars, treeVars>>

\* main, lines 17-32: the scraper is made and scrape() called for the pair
\* that is truthy; with neither, main logs "Scraping complete" and returns.
MainDispatch ==
    /\ apc = "main"
    /\ IF ScrapeMode(args) = ""
       THEN /\ apc' = "exited"
            /\ exit_status' = 0
            /\ UNCHANGED scrape_calls
       ELSE /\ apc' = "scraping"
            /\ scrape_calls' = Append(scrape_calls, ScrapeMode(args))
            /\ UNCHANGED exit_status
    /\ UNCHANGED <<argv, args>>
    /\ UNCHANGED <<fetchVars, mergeVars, runVars, treeVars>>

\* scraper.scrape() returns, or raises an exception that ends the process.
ScrapeEnds(out) ==
    /\ apc = "scraping"
    /\ apc' = "exited"
    /\ exit_status' = IF out = "ok" THEN 0 ELSE 1
    /\ UNCHANGED <<argv, args, scrape_calls>>
    /\ UNCHANGED <<fetchVars, mergeVars, runVars, treeVars>>

(***************************************************************************)
(* Claims about the fetcher (checked under Spec).                          *)
(***************************************************************************)
RECURSIVE TotalDelay(_)
TotalDelay(es) ==
    IF es = <<>> THEN 0
    ELSE (IF Head(es).ev = "sleep" THEN Head(es).n ELSE 0) + TotalDelay(Tail(es))

Range(q) == {q[i] : i \in 1 .. Len(q)}

NumGets(es) == Len(SelectSeq(es, LAMBDA e : e.ev = "get"))

\* GET 1, sleep 2, GET 2, sleep 4, ..., GET k: k attempts and the k - 1
\* sleeps between them.
ExpectedEvents(k) ==
    [j \in 1 .. (2 * k - 1) |->
        IF j % 2 = 1 THEN Get((j + 1) \div 2) ELSE Sleep(2 ^ (j \div 2))]

\* C1: after failed attempt k (k < max_attempts) the fetcher sleeps exactly
\* 2^k seconds and then makes attempt k+1; no sleep precedes attempt 1 and
\* none follows a success; a request that succeeds on attempt 3 returns the
\* document after 2 + 4 = 6 seconds; the delay is never clamped to
\* MAX_BACKOFF_TIME.
C1_BackoffSchedule ==
    \A i \in Tasks :
        /\ fpc[i] = "request" =>
               IF attempt[i] = 1 THEN events[i] = <<>>
               ELSE events[i] =
                        Append(ExpectedEvents(attempt[i] - 1), Sleep(2 ^ (attempt[i] - 1)))
        /\ fpc[i] = "sleeping" =>
               /\ attempt[i] < maxAttempts
               /\ events[i] = Append(ExpectedEvents(attempt[i]), Sleep(2 ^ attempt[i]))
        /\ fpc[i] = "returned" =>
               /\ events[i] = ExpectedEvents(attempt[i])
               /\ result[i] = Document(urls[i], lastResp[i])
               /\ TotalDelay(events[i]) = 2 ^ attempt[i] - 2
               /\ (attempt[i] = 3 => TotalDelay(events[i]) = 6)

C1_Witness ==
    /\ \E i \in Tasks :
           /\ fpc[i] = "returned"
           /\ attempt[i] = 3
           /\ TotalDelay(events[i]) = 6
    /\ \E i \in Tasks :
           \E j \in 1 .. Len(events[i]) :
               events[i][j].ev = "sleep" /\ events[i][j].n > MAX_BACKOFF_TIME

\* C2: a request that fails on every attempt makes exactly max_attempts GETs,
\* never more, does not sleep after the last one, and raises an error that
\* carries the URL, the attempt count and the last underlying error.
C2_Exhaustion ==
    \A i \in Tasks :
        /\ attempt[i] <= maxAttempts
        /\ NumGets(events[i]) <= maxAttempts
        /\ fpc[i] = "raised" =>
               /\ events[i] = ExpectedEvents(maxAttempts)
               /\ NumGets(events[i]) = maxAttempts
               /\ result[i].kind = "error"
               /\ result[i].url = urls[i]
               /\ result[i].attempts = maxAttempts
               /\ result[i].status = lastResp[i].status
               /\ result[i].transport = lastResp[i].transport

C2_Witness ==
    \E i \in Tasks :
        /\ fpc[i] = "raised"
        /\ maxAttempts = DEFAULT_MAX_ATTEMPTS
        /\ NumGets(events[i]) = DEFAULT_MAX_ATTEMPTS

Attempted(i) == fpc[i] \in {"returned", "sleeping", "raised"}

\* C3 as stated: an attempt is retried exactly when the status is non-2xx or
\* the transport fails; every 2xx status is returned as a document.
C3_Retry2xx ==
    \A i \in Tasks :
        Attempted(i) =>
            (fpc[i] = "returned" <=>
                (~lastResp[i].transport /\ lastResp[i].status \in 200 .. 299))

\* C3 amended: an attempt is retried (or, on the last attempt, raised) exactly
\* when the status is not 200 or the transport fails; only status 200 is
\* returned as a document.
C3_RetryNot200 ==
    \A i \in Tasks :
        /\ Attempted(i) =>
               (fpc[i] = "returned" <=>
                   (~lastResp[i].transport /\ lastResp[i].status = 200))
        /\ (fpc[i] = "request" /\ attempt[i] > 1) =>
               (lastResp[i].transport \/ lastResp[i].status # 200)
        /\ fpc[i] = "returned" => result[i].status = 200

C3_Witness ==
    \E i \in Tasks :
        /\ fpc[i] = "sleeping"
        /\ ~lastResp[i].transport
        /\ lastResp[i].status \in 201 .. 299

\* C4: fetch_pages returns one slot per input URL, in input order; slot i
\* holds the document or the error of URL i, decided by that URL's own
\* responses alone, whatever the interleaving of the tasks.
C4_OneSlotPerUrl ==
    bpc = "done" =>
        /\ Len(responses) = Len(urls)
        /\ \A i \in Tasks :
               /\ responses[i].url = urls[i]
               /\ responses[i] =
                      IF IsSuccess(lastResp[i])
                      THEN Document(urls[i], lastResp[i])
                      ELSE FetchError(urls[i], maxAttempts, lastResp[i])

C4_Witness ==
    /\ bpc = "done"
    /\ Len(urls) >= 2
    /\ responses[1].kind = "error"
    /\ responses[2].kind = "doc"


(***************************************************************************)
(* Claims about the scrape (checked under RunSpec).                        *)
(***************************************************************************)
\* C5: a failure while processing one trial, in its detail fetch or in its
\* merge, is caught and skips only that trial; it never ends the scrape.
C5_TrialFailureIsolated ==
    rpc = "aborted" => abortedAt \notin {"get_trial_data", "merge"}

CardOnlyRow(id) ==
    LET i == CHOOSE i \in 1 .. Len(cards_data) : TrialId(cards_data[i]) = id
    IN  get_trial_data_from_card(cards_data[i]).row

\* C6: when the detail fetch (a protocol fetch or the results fetch) fails
\* for exactly one card and for no other, the scrape ends with
\* successful_trials = N - 1, N - 1 merged rows, and the failing card left
\* with its card-only row and logged as skipped.
C6_OneDetailFailure ==
    (rpc = "done" /\ Cardinality(protocolFailed \cup resultsFailed) = 1) =>
        LET id == CHOOSE id \in protocolFailed \cup resultsFailed : TRUE
        IN  /\ reported = <<Len(cards_data) - 1, Len(cards_data)>>
            /\ Len(merged) = Len(cards_data) - 1
            /\ skipped = <<id>>
            /\ ddb[id] = CardOnlyRow(id)

CardsPersisted ==
    \A i \in 1 .. Len(cards_data) :
        /\ TrialId(cards_data[i]) \in DOMAIN ddb
        /\ ddb[TrialId(cards_data[i])]["trial_id"] = Value(cards_data[i], "trial_id")

\* C7: a card-only row keyed by trial_id is put for every parsed card before
\* the per-trial loop starts, so that at the end of a scrape in which no
\* write failed every card has a row, also the cards that were skipped and
\* the cards without protocols or results.
C7_NoRowDiscarded ==
    /\ rpc \in {"upload_cards", "loop", "get_trial_data", "merge", "push_record",
                "upload_trial", "done"} => CardsPersisted
    /\ (rpc = "aborted" /\ runExc # "PersistError") => CardsPersisted
    /\ \A i \in 1 .. Len(skipped) : ddb[skipped[i]] = CardOnlyRow(skipped[i])

C7_Witness ==
    /\ rpc = "loop"
    /\ card_idx = 2
    /\ skipped # <<>>
    /\ \E i \in 1 .. Len(cards_data) :
           /\ Value(cards_data[i], "trial_protocols").v = <<>>
           /\ ~Truthy(Value(cards_data[i], "trial_results_link"))
           /\ TrialId(cards_data[i]) \in DOMAIN ddb

\* The columns some step of get_trial_data_from_card or update_record
\* assigns.
CardColumns ==
    {"trial_id", "title", "url", "age", "sex", "start_date", "sponsor", "conditions",
     "protocols"}

AssignedColumns ==
    CardColumns \cup
        {"status", "study_type", "first_posted", "locations", "funder_type",
         "completion_date", "last_update_posted", "results_first_posted",
         "primary_completion_date", "enrollment", "phases"}

SchemaRow(row, card, columns) ==
    /\ Cardinality(COLUMNS) = 31
    /\ COLUMNS \subseteq DOMAIN row
    /\ row["trial_id"] = Value(card, "trial_id")
    /\ \A c \in COLUMNS \ columns : row[c] = None

CardOf(id) == cards_data[CHOOSE i \in 1 .. Len(cards_data) : TrialId(cards_data[i]) = id]

\* C15: every row made from a card (get_trial_data_from_card) or from trial
\* data (update_record) has the trial_id of its card and every one of the 31
\* columns of COLUMNS, None where no step assigned it, whichever of the
\* protocol and results sources are there.
C15_RowSchema ==
    /\ \A id \in DOMAIN ddb :
           /\ SchemaRow(ddb[id], CardOf(id), AssignedColumns)
           /\ id \notin Range(merged) => SchemaRow(ddb[id], CardOf(id), CardColumns)
    /\ rpc \in {"push_record", "upload_trial"} =>
           SchemaRow(new_record, cards_data[card_idx], AssignedColumns)

C15_Witness ==
    /\ rpc = "done"
    /\ \E id \in DOMAIN ddb : id \in Range(merged) /\ ddb[id]["completion_date"] # None
    /\ \E id \in DOMAIN ddb :
           id \in Range(merged) /\ ~Truthy(Value(CardOf(id), "trial_results_link"))
    /\ Cardinality(DOMAIN ddb) >= 2

\* get_num_pages_and_results has been called on the first search page.
Resolved == mode = "date" /\ rpc # "scrape" /\ runExc # "FetchError"

LacksSummary(page) == ~page.tabs \/ ~page.outcome \/ ~page.sentence

NothingDone ==
    /\ rpc = "aborted"
    /\ abortedAt = "scrape"
    /\ search_results = <<>>
    /\ cards_data = <<>>
    /\ ddb = <<>>
    /\ s3 = {}

\* C16 as stated: a first search page without the results-summary region or
\* without the sentence makes the resolver return NotFound, a value and not
\* an exception, and the date-range scrape aborts before it fetches a search
\* page, parses a card or writes a row; a page with the sentence gives
\* (Total, N), thousands separators stripped.
C16_NotFoundValue ==
    Resolved =>
        IF LacksSummary(initial_search_page)
        THEN pages_and_results = NotResolved /\ NothingDone
        ELSE pages_and_results =
                 [exc |-> "", found |-> TRUE, pages |-> initial_search_page.pages,
                  results |-> initial_search_page.results]

\* C16 amended: the resolver returns None when div.outcome or the sentence
\* is missing and raises an exception when div#tabs-1 is missing; in each
\* case the date-range scrape aborts, with an error that is not the fetch
\* error, before it fetches a search page, parses a card or writes a row; a
\* page with the sentence gives (Total, N), thousands separators stripped.
C16_PaginationAbort ==
    Resolved =>
        IF LacksSummary(initial_search_page)
        THEN /\ ~pages_and_results.found
             /\ pages_and_results.exc =
                    IF initial_search_page.tabs THEN "" ELSE "Exception"
             /\ runExc = IF initial_search_page.tabs THEN "TypeError" ELSE "Exception"
             /\ NothingDone
        ELSE /\ pages_and_results =
                    [exc |-> "", found |-> TRUE, pages |-> initial_search_page.pages,
                     results |-> initial_search_page.results]
             /\ rpc = "aborted" => abortedAt # "scrape"

C16_Witness ==
    /\ Resolved
    /\ initial_search_page.tabs
    /\ initial_search_page.outcome
    /\ ~initial_search_page.sentence
    /\ initial_search_page.results = 1234
    /\ rpc = "aborted"
    /\ runExc = "TypeError"

\* C19: in both modes a search page whose fetch failed is not fatal: its
\* error value is dropped from the batch result, and the cards of the pages
\* that were fetched are parsed, persisted and processed.
C19_SearchPageFailureNonFatal ==
    /\ \A i \in 1 .. Len(search_results) : search_results[i].kind # "error"
    /\ rpc = "aborted" => abortedAt # "get_cards"

TrialDataKept(id) == <<"trial_data", id>> \in s3

\* Card j is done with: skipped, or its merged row and its aggregate written.
Handled(j) ==
    LET id == TrialId(cards_data[j])
    IN  id \in Range(skipped) \/ (id \in Range(merged) /\ TrialDataKept(id))

\* Something of the per-trial loop has happened for card j.
Touched(j) ==
    LET id == TrialId(cards_data[j])
    IN  \/ id \in Range(skipped) \cup Range(merged) \cup protocolFailed \cup resultsFailed
        \/ TrialDataKept(id)

SequentialState ==
    rpc \in {"loop", "get_trial_data", "merge", "push_record", "upload_trial"} =>
        /\ \A j \in 1 .. Len(cards_data) :
               /\ j < card_idx => Handled(j)
               /\ j > card_idx => ~Touched(j)
               /\ (j = card_idx /\ rpc = "loop") => ~Touched(j)
        /\ rpc = "get_trial_data" =>
               (pidx <= Len(protocols_urls) + 1 /\ Len(protocols) < pidx)
        /\ rpc \in {"merge", "push_record", "upload_trial"} =>
               /\ pidx = Len(protocols_urls) + 1
               /\ Value(cur_trial, "trial_id") = Value(cards_data[card_idx], "trial_id")

SequentialStep ==
    /\ pidx' # pidx => (pidx' = pidx + 1 \/ (rpc = "loop" /\ pidx' = 1))
    /\ card_idx' # card_idx =>
           /\ card_idx' = card_idx + 1
           /\ card_idx > 0 =>
                  LET id == TrialId(cards_data[card_idx])
                  IN  /\ rpc \in {"get_trial_data", "upload_trial"}
                      /\ \/ id \in Range(skipped')
                         \/ id \in Range(merged') /\ <<"trial_data", id>> \in s3'
    /\ (rpc' = "get_trial_data" /\ rpc # "get_trial_data") => rpc = "loop"

\* C20: the detail retrieval is strictly sequential: one trial at a time is
\* fetched, merged and persisted, its protocol URLs one after another and
\* before its results URL, and the next card's fetch begins only once the
\* current trial's merged row and aggregate are written or the trial skipped.
C20_SequentialDetail == []SequentialState /\ [][SequentialStep]_vars

C20_Witness ==
    /\ rpc = "get_trial_data"
    /\ card_idx = 2
    /\ pidx = 2
    /\ Len(protocols) = 1
    /\ Handled(1)
    /\ TrialId(cards_data[1]) \in Range(merged)

\* The trial the loop body is at: get_trial_data is running, or it has
\* returned the aggregate and the body goes on with it.
InTrial == rpc \in {"get_trial_data", "merge", "push_record", "upload_trial"}
Retrieved == rpc \in {"merge", "push_record", "upload_trial"}

HasUrl(protocol) == Value(protocol, "protocol_url") \notin {None, Str("")}

\* The URLs of the card's protocols that are not empty, in the card's order.
UrlsToFetch(card) ==
    LET withUrl == SelectSeq(Value(card, "trial_protocols").v, HasUrl)
    IN  [i \in 1 .. Len(withUrl) |-> Value(withUrl[i], "protocol_url")]

FetchedUrls == [i \in 1 .. Len(fetch_log) |-> fetch_log[i][1]]
FetchSucceeded(call) == call[2] = "ok"
KeptUrls == [i \in 1 .. Len(protocols) |-> Value(protocols[i], "url")]

\* C21: within one trial a protocol URL whose fetch or parse fails is left
\* out and nothing else: the URLs fetched so far are the first non-empty
\* URLs of the card in the card's order, whatever failed before (an empty
\* URL is never fetched), the documents kept are those of the fetches that
\* succeeded, in that order, and when get_trial_data has returned the
\* aggregate every non-empty URL was fetched and the aggregate holds the
\* kept documents.  The trials logged as skipped are exactly those whose
\* results fetch failed; a failed protocol fetch alone never skips one.
C21_ProtocolFailureIsolated ==
    /\ InTrial =>
          LET card == cards_data[card_idx]
              toFetch == UrlsToFetch(card)
              succeeded == SelectSeq(fetch_log, FetchSucceeded)
          IN  /\ Len(fetch_log) <= Len(toFetch)
              /\ FetchedUrls = SubSeq(toFetch, 1, Len(fetch_log))
              /\ \A i \in 1 .. Len(fetch_log) : Truthy(fetch_log[i][1])
              /\ KeptUrls = [i \in 1 .. Len(succeeded) |-> succeeded[i][1]]
              /\ Retrieved =>
                    /\ FetchedUrls = toFetch
                    /\ cur_trial # None
                    /\ Value(cur_trial, "protocols") = List(protocols)
                    /\ TrialId(card) \notin resultsFailed
                    /\ TrialId(card) \notin Range(skipped)
    /\ Range(skipped) = resultsFailed
    /\ \A id \in resultsFailed : ~TrialDataKept(id)

\* The first protocol of a card failed, the empty URL was passed over, the
\* last protocol was fetched and kept, and get_trial_data returned the
\* aggregate.
C21_Witness ==
    /\ rpc = "merge"
    /\ Len(Value(cards_data[card_idx], "trial_protocols").v) = 3
    /\ ~HasUrl(Value(cards_data[card_idx], "trial_protocols").v[2])
    /\ fetch_log = <<<<Str("p"), "error">>, <<Str("q"), "ok">>>>
    /\ KeptUrls = <<Str("q")>>
    /\ cur_trial # None
    /\ TrialId(cards_data[card_idx]) \in protocolFailed

(***************************************************************************)
(* Claims about update_record (checked under MergeSpec).                   *)
(***************************************************************************)
InputCard == Value(merge_input, "card")
InputProtocols == Value(merge_input, "protocols").v

\* The fields the first protocol document gives the row:
\* <<section, label, column>>.
ProtocolSources ==
    {<<"A. Protocol Information", "Full title of the trial", "title">>,
     <<"summary", "Trial Status", "status">>,
     <<"summary", "Clinical Trial Type", "study_type">>,
     <<"summary", "Date on which this record was first entered in the EudraCT database",
       "first_posted">>,
     <<"B. Sponsor Information", "Country", "locations">>,
     <<"B. Sponsor Information", "Status of the sponsor", "funder_type">>}

SourcePresent(doc, src) ==
    /\ HasKey(doc, src[1])
    /\ IsDict(Value(doc, src[1]))
    /\ HasKey(Value(doc, src[1]), src[2])

\* The first element of a one-element list, a scalar as it is.
Effective(x) == IF IsList(x) /\ Len(x.v) > 0 THEN x.v[1] ELSE x

\* C8: protocol over card.  With card status "ongoing" and Trial Status
\* ["completed"] in the first protocol document the row has status
\* "completed"; in general each of the six protocol fields that is present
\* in the first protocol document is the value of its column in the row.
C8_ProtocolOverCard ==
    (mpc = "returned" /\ Len(InputProtocols) > 0) =>
        \A src \in ProtocolSources :
            SourcePresent(InputProtocols[1], src) =>
                row_data[src[3]] = Effective(Value(Value(InputProtocols[1], src[1]), src[2]))

\* C9: a card whose protocol list is empty is not fatal to the card step: the
\* access to the first protocol's status is guarded, status stays None and
\* the card-derived row is returned.
C9_EmptyProtocolListGuarded ==
    (Value(InputCard, "trial_protocols").v = <<>> /\ msteps # <<>>) =>
        /\ mpc # "raised"
        /\ row_data["status"] = None
        /\ row_data["trial_id"] = Value(InputCard, "trial_id")

\* C10: the results step is a silent no-op when no key of the results
\* document contains "current" (no error, the row as the card and protocol
\* steps left it); otherwise the version it reads is the first key, in the
\* mapping's order, that contains "current".
C10_ResultsStep ==
    (Len(msteps) = 3) =>
        LET results == Value(merge_input, "results")
            keys == CurrentKeys(results)
        IN  IF keys = <<>>
            THEN mpc = "returned" /\ row_data = rowBefore
            ELSE /\ mpc = "returned"
                 /\ row_data["completion_date"] =
                        Effective(Value(Value(Value(results, keys[1]), "summary"),
                                        "global_end_date"))


\* The columns that belong to the results step.
ResultsColumns ==
    {"completion_date", "primary_completion_date", "enrollment", "phases",
     "results_first_posted", "last_update_posted"}

\* C18: the results step (extract_results_data with extract_phase_data)
\* changes only completion_date, primary_completion_date, enrollment, phases,
\* results_first_posted and last_update_posted; every other field keeps the
\* value the card and protocol steps gave it, for every results document.
C18_ResultsFrame ==
    Len(msteps) = 3 =>
        /\ DOMAIN row_data = DOMAIN rowBefore
        /\ \A c \in DOMAIN rowBefore \ ResultsColumns : row_data[c] = rowBefore[c]

C18_Witness ==
    /\ Len(msteps) = 3
    /\ mpc = "returned"
    /\ \A c \in ResultsColumns : row_data[c] # None
    /\ rowBefore["completion_date"] = None
    /\ row_data["status"] = Str("ongoing")

(***************************************************************************)
(* Claims about the tree helpers (checked under TreeSpec).                 *)
(***************************************************************************)
\* Keyed or indexed descent: a string segment selects the entry of a
\* mapping, an integer segment the element of a list; None when the segment
\* is missing or the node is not indexable by it.
RECURSIVE Descend(_, _)
Descend(n, path) ==
    IF path = <<>> THEN n
    ELSE LET seg == Head(path)
         IN  IF IsDict(n) /\ seg.t = "str" /\ HasKey(n, seg.v)
             THEN Descend(Value(n, seg.v), Tail(path))
             ELSE IF IsList(n) /\ seg.t = "int" /\ seg.v >= 0 /\ seg.v < Len(n.v)
             THEN Descend(n.v[seg.v + 1], Tail(path))
             ELSE None

\* C11: safe_get returns the value at the path when every segment exists, a
\* segment being a mapping key or an integer index into a list, None when a
\* segment is missing or the node is not indexable, and never raises.
C11_SafeGet ==
    tfn = "safe_get" => (tret.exc = "" /\ tret.val = Descend(tree, tpath))

RECURSIVE Flatten(_)
Flatten(qs) == IF qs = <<>> THEN <<>> ELSE Head(qs) \o Flatten(Tail(qs))

\* The mapping entries of a tree in depth-first pre-order: a mapping entry
\* by entry, each before the entries inside its value, a list by index.
RECURSIVE PreOrder(_)
PreOrder(n) ==
    CASE IsDict(n) -> Flatten([i \in 1 .. Len(n.v) |-> <<n.v[i]>> \o PreOrder(n.v[i].val)])
      [] IsList(n) -> Flatten([i \in 1 .. Len(n.v) |-> PreOrder(n.v[i])])
      [] OTHER -> <<>>

\* C12: search_for_key returns the value of the first entry, in depth-first
\* pre-order, whose key equals the target, also when that value is None or
\* empty and the key occurs again later; None when no key matches; it never
\* raises.
C12_FindFirst ==
    tfn = "search_for_key" =>
        LET hits == SelectSeq(PreOrder(tree), LAMBDA e : e.k = tkey)
        IN  /\ tret.exc = ""
            /\ tret.val = IF hits = <<>> THEN None ELSE hits[1].val

PatternHits == SelectSeq(PreOrder(tree), LAMBDA e : ContainsIgnoreCase(e.k, tkey))

\* C13: collect_keys_with_keyword returns one {key: value} item per mapping
\* key that matches the keyword without regard to case, in depth-first
\* order, the matches inside the value of a matched key and inside list
\* elements included; when nothing matches the result is empty (None).
C13_CollectByPattern ==
    tfn = "collect_keys_with_keyword" =>
        /\ tret.exc = ""
        /\ IF PatternHits = <<>>
           THEN tret.val = None
           ELSE tret.val = List([i \in 1 .. Len(PatternHits) |-> Dict(<<PatternHits[i]>>)])

C13_Witness ==
    /\ tfn = "collect_keys_with_keyword"
    /\ IsDict(tree)
    /\ \E i \in 1 .. Len(tree.v) :
           /\ tree.v[i].k = "Phase"
           /\ IsDict(tree.v[i].val)
           /\ HasKey(tree.v[i].val, "phase II")
    /\ Len(tret.val.v) >= 3

\* The entries of es whose key has not occurred before, in order.
RECURSIVE FirstOccurrences(_, _)
FirstOccurrences(es, seen) ==
    IF es = <<>> THEN <<>>
    ELSE IF Head(es).k \in seen THEN FirstOccurrences(Tail(es), seen)
    ELSE <<Head(es)>> \o FirstOccurrences(Tail(es), seen \cup {Head(es).k})

PhaseHits == SelectSeq(PreOrder(tree), LAMBDA e : ContainsIgnoreCase(e.k, "Phase"))

\* C14: extract_phase_data sets phases to one item per distinct key that
\* matches "Phase", in the order of first occurrence, with the value of the
\* first occurrence (a scalar as it is, the first element of a one-element
\* list); later occurrences are dropped and no value shape makes it fail.
C14_PhaseMerge ==
    tfn = "extract_phase_data" =>
        LET firsts == FirstOccurrences(PhaseHits, {})
        IN  /\ tret.exc = ""
            /\ trow = IF PhaseHits = <<>> THEN EmptyRow
                      ELSE RowSet(EmptyRow, "phases",
                                  List([i \in 1 .. Len(firsts) |->
                                           Dict(<<Entry(firsts[i].k,
                                                        Effective(firsts[i].val))>>)]))

(***************************************************************************)
(* Claims about the command line (checked under ArgsSpec).                 *)
(***************************************************************************)
\* YYYY-MM-DD: ten characters that are a date of the calendar.
IsoDate(a) == a.t = "str" /\ Len(a.v) = 10 /\ strptime(a.v).exc = ""

ValidDates(a) ==
    /\ IsoDate(a.start_date)
    /\ IsoDate(a.end_date)
    /\ ~DateAfter(strptime(a.start_date.v).val, strptime(a.end_date.v).val)
    /\ IsNone(a.start_page)
    /\ IsNone(a.end_page)

ValidPages(a) ==
    /\ a.start_page.t = "int" /\ a.start_page.v > 0
    /\ a.end_page.t = "int" /\ a.end_page.v > 0
    /\ IsNone(a.start_date)
    /\ IsNone(a.end_date)

\* C17: scraping starts only when exactly one of the two pairs is given in
\* full with valid values (ISO dates with start <= end, or positive pages);
\* every other command line, a page of 0 or a negative page included, ends
\* the process with a status that is not 0; every accepted one runs exactly
\* one scrape mode.
C17_ArgValidation ==
    /\ scrape_calls # <<>> => (ValidDates(argv) \/ ValidPages(argv))
    /\ (apc = "exited" /\ ~(ValidDates(argv) \/ ValidPages(argv))) => exit_status # 0
    /\ (apc = "exited" /\ ValidDates(argv)) => scrape_calls = <<"date">>
    /\ (apc = "exited" /\ ValidPages(argv)) => scrape_calls = <<"page">>

(***************************************************************************)
(* The specifications: the batch fetcher, update_record, the scrape, the    *)
(* tree helpers, the command line.                                         *)
(***************************************************************************)
Init == InitFetch /\ IdleMerge /\ IdleRun /\ IdleTree /\ IdleArgs

Next ==
    \/ \E i \in Tasks, r \in Responses : MakeRequest(i, r)
    \/ \E i \in Tasks : WakeUp(i)
    \/ FetchMultipleReturn

Spec == Init /\ [][Next]_vars

MergeInit == IdleFetch /\ InitMerge /\ IdleRun /\ IdleTree /\ IdleArgs

MergeNext ==
    \/ MergeCard
    \/ MergeProtocol
    \/ MergeResults

MergeSpec == MergeInit /\ [][MergeNext]_vars

RunInit == IdleFetch /\ IdleMerge /\ InitRun /\ IdleTree /\ IdleArgs

RunNext ==
    \/ \E out \in Outcomes, page \in InitialPageChoices : ResolvePages(out, page)
    \/ StartByPage
    \/ \E outs \in [1 .. NumPages -> Outcomes] : FetchSearchPages(outs)
    \/ \E perm \in Orders(MaxCards) \cup Orders(Len(site)) :
           GetAndParseCards(perm)
    \/ \E out \in Outcomes : PushCardRows(out)
    \/ \E out \in Outcomes : UploadCards(out)
    \/ NextCard
    \/ \E out \in Outcomes, parsed \in RunProtocolDocs : FetchProtocol(out, parsed)
    \/ \E out \in Outcomes, doc \in RunResultsDocs : GetResults(out, doc)
    \/ Merge
    \/ \E out \in Outcomes : PushRecord(out)
    \/ \E out \in Outcomes : UploadTrial(out)

RunSpec == RunInit /\ [][RunNext]_vars

TreeInit == IdleFetch /\ IdleMerge /\ IdleRun /\ InitTree /\ IdleArgs

TreeNext ==
    \/ \E keys \in PathChoices : SafeGetCall(keys)
    \/ \E target_key \in {"k"} : SearchForKeyCall(target_key)
    \/ \E keyword \in {"Phase"} : CollectKeysCall(keyword)
    \/ ExtractPhaseCall

TreeSpec == TreeInit /\ [][TreeNext]_vars

ArgsInit == IdleFetch /\ IdleMerge /\ IdleRun /\ IdleTree /\ InitArgs

ArgsNext ==
    \/ ParseArguments
    \/ MainDispatch
    \/ \E out \in Outcomes : ScrapeEnds(out)

ArgsSpec == ArgsInit /\ [][ArgsNext]_vars

====
